---- MODULE Spec2Model ----
(***************************************************************************)
(* Model of etl.py: the Sparkify data-lake ETL.  main runs                 *)
(* process_song_data and then process_log_data; each reads a JSON input,   *)
(* derives tables with Spark SQL and overwrites parquet tables under the   *)
(* output root.                                                            *)
(*                                                                         *)
(* A nullable column value is NULL (the empty tuple) or the 1-tuple <<v>>, *)
(* so that SQL's three-valued comparisons are modelled and not confused    *)
(* with equality of values.  A DataFrame whose rows were deduplicated, or  *)
(* whose rows are pairwise distinct by construction, is a set of records.  *)
(***************************************************************************)
EXTENDS Integers, Sequences, FiniteSets

VARIABLES
    catalog,      \* the records under the song_data input path
    log,          \* the records under the log_data input path
    store,        \* the parquet tables under the output root, by table name
    pc,           \* position of main
    written,      \* the tables the run in progress, or just ended, has written
    run,          \* number of runs of main started
    song_df,      \* DataFrame read back from output_data + '/song'
    artists_df    \* DataFrame read back from output_data + '/artists'

vars == <<catalog, log, store, pc, written, run, song_df, artists_df>>

-----------------------------------------------------------------------------
(* Bounds of the model *)

MaxCat == 2

MaxLog == 3

MaxRuns == 2

-----------------------------------------------------------------------------
(* Column values *)

NULL == <<>>

V(x) == <<x>>

\* A path under the output root: whether a table has been written there,
\* and its rows.  Absent is a path nothing has been written to.
Absent == [exists |-> FALSE, rows |-> {}]

\* Variant: null-safe equality (<=>), under which NULL equals NULL
NullSafeEq(a, b) == a = b

\* SQL '=' in a join condition or WHERE: true only when both sides are
\* non-null and equal (a NULL comparison is not true)
SqlEq(a, b) == a # NULL /\ b # NULL /\ a = b

\* Python truthiness of a LongType value handed to a udf: None and 0 are falsy
Truthy(x) == x # NULL /\ x[1] # 0

-----------------------------------------------------------------------------
(* Inputs: the records the two input paths may hold *)

\* the columns of RawSongSchema the queries use
CatRec(sid, title, aid, name, yr, loc) ==
    [song_id |-> sid, title |-> title, artist_id |-> aid, artist_name |-> name,
     year |-> yr, duration |-> V(200), artist_location |-> loc,
     artist_latitude |-> NULL, artist_longitude |-> NULL]

CatalogRecords ==
    { CatRec(V("s1"), V("T1"), V("a1"), V("N1"), V(2000), V("Oslo")),
      CatRec(V("s1"), V("T1"), V("a1"), V("N1"), V(2001), V("Rome")),
      CatRec(V("s2"), V("T1"), V("a2"), V("N1"), V(2000), V("Oslo")),
      CatRec(NULL,    V("T1"), NULL,    V("N1"), V(2000), NULL),
      CatRec(V("s3"), NULL,    V("a3"), NULL,    NULL,    NULL) }

\* `file` is the input file under the log path that holds the record and
\* itemInSession its place in the reading order; the other fields are the
\* columns of RawLogSchema the queries use
LogRec(item, page, uid, first, ts, level, song, artist) ==
    [file |-> item % 2, itemInSession |-> item, page |-> page,
     userId |-> uid, firstName |-> first,
     lastName |-> V("Doe"), gender |-> V("F"), ts |-> ts, level |-> level,
     song |-> song, artist |-> artist, sessionId |-> V(7),
     location |-> V("home"), userAgent |-> V("agent")]

LogRecords ==
    { LogRec(1, V("NextSong"), V("u1"), V("Ann"), V(100), V("free"), V("T1"), V("N1")),
      LogRec(2, V("NextSong"), V("u1"), V("Ann"), V(300), V("paid"), V("T1"), V("N1")),
      LogRec(3, V("NextSong"), V("u1"), V("Ann"), V(200), V("free"), NULL,    V("N1")),
      LogRec(4, V("NextSong"), V("u1"), V("Ann"), V(300), V("free"), V("T2"), NULL),
      LogRec(5, V("NextSong"), NULL,    NULL,     NULL,   V("free"), V("T1"), V("N1")),
      LogRec(6, V("NextSong"), V("u2"), V("Bob"), V(0),   V("free"), NULL,    NULL),
      LogRec(7, V("Login"),    V("u1"), V("Eve"), V(900), V("paid"), NULL,    NULL),
      LogRec(8, V("NextSong"), V("u2"), V("Bob"), NULL,   V("paid"), V("T1"), V("N1")) }

TableNames == {"song", "artists", "users", "time", "songplays"}

-----------------------------------------------------------------------------
(* process_song_data: the Song and Artist tables *)

SongRow(r) ==
    [song_id |-> r.song_id, title |-> r.title, artist_id |-> r.artist_id,
     year |-> r.year, duration |-> r.duration]

\* df.select(...).where("song_id is not null").dropDuplicates()
SongsTable(cat) == { SongRow(r) : r \in { q \in cat : q.song_id # NULL } }

ArtistRow(r) ==
    [artist_id |-> r.artist_id, name |-> r.artist_name,
     location |-> r.artist_location, latitude |-> r.artist_latitude,
     longitude |-> r.artist_longitude]

\* df.select(...).where("artist_id is not null").dropDuplicates()
ArtistsTable(cat) == { ArtistRow(r) : r \in { q \in cat : q.artist_id # NULL } }

-----------------------------------------------------------------------------
(* process_log_data: the filter and the User table *)

\* Variant: the page filter left out
NoFilter(lg) == lg

\* df.select("*").where("page = 'NextSong'")
FilterNextSong(lg) == { r \in lg : SqlEq(r.page, V("NextSong")) }

\* Variant: ascending order of ts
BeforeAsc(q, r) == q.ts # NULL /\ (r.ts = NULL \/ q.ts[1] < r.ts[1])

\* orderBy(col("ts").desc()): q sorts strictly before r (descending, nulls last)
Before(q, r) == q.ts # NULL /\ (r.ts = NULL \/ q.ts[1] > r.ts[1])

\* Window.partitionBy("userId"): the partition keys (NULL is a key of its own)
PartitionKeys(df) == { r.userId : r \in df }

\* The rows of partition k that row_number() may number 1: no row of the
\* partition sorts strictly before them.  Among rows with equal ts the engine
\* numbers them in an order the query does not fix.
TopRanked(df, k) ==
    { r \in df : r.userId = k /\ \A q \in df : q.userId = k => ~Before(q, r) }

\* The possible outcomes of ts_rank = 1: one row per partition
RankOneChoices(df) ==
    { f \in [PartitionKeys(df) -> df] :
        \A k \in PartitionKeys(df) : f[k] \in TopRanked(df, k) }

UserRow(r) ==
    [user_id |-> r.userId, first_name |-> r.firstName, last_name |-> r.lastName,
     gender |-> r.gender, level |-> r.level]

\* The users_table a run may produce: the rank-1 row of every partition,
\* where("userId is not null"), projected
UsersTables(df) ==
    { { UserRow(f[k]) : k \in { j \in PartitionKeys(df) : j # NULL } } :
        f \in RankOneChoices(df) }

-----------------------------------------------------------------------------
(* process_log_data: start_time and the Time table *)

\* pd.to_datetime(x, unit='ms') stored as TimestampType: microseconds since
\* the epoch
ToDatetime(ms) == ms * 1000

\* the udf get_timestamp
get_timestamp(x) == IF Truthy(x) THEN V(ToDatetime(x[1])) ELSE NULL

\* df.withColumn("start_time", get_timestamp("ts"))
WithStartTime(df) ==
    { [rec |-> r, start_time |-> get_timestamp(r.ts)] : r \in df }

EpochSeconds(us) == us \div 1000000

EpochDays(us) == EpochSeconds(us) \div 86400

\* days since the epoch of the civil date y-m-d (proleptic Gregorian)
DaysFromCivil(y, m, d) ==
    LET yy  == IF m <= 2 THEN y - 1 ELSE y
        era == yy \div 400
        yoe == yy - era * 400
        mp  == IF m > 2 THEN m - 3 ELSE m + 9
        doy == (153 * mp + 2) \div 5 + d - 1
        doe == yoe * 365 + yoe \div 4 - yoe \div 100 + doy
    IN  era * 146097 + doe - 719468

\* the civil date of a day number, as [y, m, d]
CivilFromDays(days) ==
    LET z   == days + 719468
        era == z \div 146097
        doe == z - era * 146097
        yoe == (doe - doe \div 1460 + doe \div 36524 - doe \div 146096) \div 365
        doy == doe - (365 * yoe + yoe \div 4 - yoe \div 100)
        mp  == (5 * doy + 2) \div 153
        d   == doy - (153 * mp + 2) \div 5 + 1
        m   == IF mp < 10 THEN mp + 3 ELSE mp - 9
        y   == yoe + era * 400 + (IF m <= 2 THEN 1 ELSE 0)
    IN  [y |-> y, m |-> m, d |-> d]

\* ISO day of week of a day number: 1 = Monday .. 7 = Sunday
IsoWeekday(days) == ((days + 3) % 7) + 1

\* number of ISO weeks of year y: 53 when Jan 1 or Dec 31 is a Thursday
IsoWeeksInYear(y) ==
    IF IsoWeekday(DaysFromCivil(y, 1, 1)) = 4
          \/ IsoWeekday(DaysFromCivil(y, 12, 31)) = 4
    THEN 53 ELSE 52

\* weekofyear(start_time): the ISO 8601 week number
WeekOfYear(days) ==
    LET c   == CivilFromDays(days)
        ord == days - DaysFromCivil(c.y, 1, 1) + 1
        w   == (ord - IsoWeekday(days) + 10) \div 7
    IN  IF w < 1 THEN IsoWeeksInYear(c.y - 1)
        ELSE IF w > IsoWeeksInYear(c.y) THEN 1
        ELSE w

\* date_format(start_time, 'E')
DayName(days) ==
    <<"Mon", "Tue", "Wed", "Thu", "Fri", "Sat", "Sun">>[IsoWeekday(days)]

\* one row of the SELECT of the time table, from a non-null start_time
TimeRow(st) ==
    LET us == st[1]
        c  == CivilFromDays(EpochDays(us))
    IN  [start_time |-> st,
         hour    |-> (EpochSeconds(us) % 86400) \div 3600,
         day     |-> c.d,
         week    |-> WeekOfYear(EpochDays(us)),
         month   |-> c.m,
         year    |-> c.y,
         weekday |-> DayName(EpochDays(us))]

\* SELECT ... FROM log_raw WHERE start_time is not null, dropDuplicates()
TimeTable(df) ==
    { TimeRow(w.start_time) :
        w \in { x \in WithStartTime(df) : x.start_time # NULL } }

-----------------------------------------------------------------------------
(* process_log_data: songplay_id and the SongPlay table *)

\* position (from 0) of record r within its partition: the rows of one
\* input file form one partition, in reading order
PartitionPosition(df, r) ==
    Cardinality({ q \in df : q.file = r.file /\ q.itemInSession < r.itemInSession })

\* monotonically_increasing_id(): the partition index in the upper 31 bits
\* and the row's position within its partition in the lower 33 bits, kept
\* as the pair <<partition, position>>
monotonically_increasing_id(partition, pos) == <<partition, pos>>

\* df.select("*").withColumn("songplay_id", monotonically_increasing_id())
WithSongplayId(df) ==
    { [rec |-> w.rec, start_time |-> w.start_time,
       songplay_id |->
           monotonically_increasing_id(w.rec.file, PartitionPosition(df, w.rec))] :
        w \in WithStartTime(df) }

\* the rows of the right side satisfying the ON condition for one left row
SongMatches(a, songs) == { b \in songs : SqlEq(a.rec.song, b.title) }

ArtistMatches(a, artists) == { c \in artists : SqlEq(a.rec.artist, c.name) }

\* Variant: an inner join, which drops a left row without a match
InnerSide(matches) == matches

\* LEFT JOIN: a left row without a match is kept once, with a null right side
LeftSide(matches) == IF matches = {} THEN {NULL} ELSE matches

SongPlayRow(a, b, c) ==
    [songplay_id |-> a.songplay_id,
     start_time  |-> a.start_time,
     song_id     |-> IF b = NULL THEN NULL ELSE b.song_id,
     artist_id   |-> IF c = NULL THEN NULL ELSE c.artist_id,
     user_id     |-> a.rec.userId,
     session_id  |-> a.rec.sessionId,
     location    |-> a.rec.location,
     level       |-> a.rec.level,
     user_agent  |-> a.rec.userAgent]

\* SELECT ... FROM log_raw a left join songs b on a.song = b.title
\*                          left join artists c on a.artist = c.name,
\* dropDuplicates()
SongPlaysTable(df, songs, artists) ==
    UNION { { SongPlayRow(a, b, c) :
                b \in LeftSide(SongMatches(a, songs)),
                c \in LeftSide(ArtistMatches(a, artists)) } :
            a \in WithSongplayId(df) }

-----------------------------------------------------------------------------
(* The table sink *)

\* Variant: mode="append", which keeps the rows already at the path
AppendParquet(old, new) == [exists |-> TRUE, rows |-> old.rows \cup new]

\* DataFrameWriter.parquet(path, mode="overwrite"): the table at the path
\* becomes the rows written
WriteParquet(old, new) == [exists |-> TRUE, rows |-> new]

\* spark.read.parquet(path): raises when there is no table at the path
CanRead(t) == store[t].exists

ReadParquet(t) == store[t].rows

-----------------------------------------------------------------------------
(* main *)

\* the reads and writes of main, in program order: process_song_data,
\* then process_log_data
MainSteps ==
    << "read_song_data", "write_song", "write_artists",
       "read_log_data", "write_users", "write_time",
       "read_song", "read_artists", "write_songplays" >>

StepIndex(p) == CHOOSE i \in 1..Len(MainSteps) : MainSteps[i] = p

\* the position after step p has completed
After(p) ==
    IF StepIndex(p) = Len(MainSteps) THEN "done" ELSE MainSteps[StepIndex(p) + 1]

Running == pc \in { MainSteps[i] : i \in 1..Len(MainSteps) }

Ended == pc \in {"done", "failed"}

Bounded(S, n) == { x \in SUBSET S : Cardinality(x) <= n }

Init ==
    /\ catalog \in Bounded(CatalogRecords, MaxCat)
    /\ log \in Bounded(LogRecords, MaxLog)
    /\ store = [t \in TableNames |-> Absent]
    /\ pc = "idle"
    /\ written = {}
    /\ run = 0
    /\ song_df = {}
    /\ artists_df = {}

\* main is started (again)
StartRun ==
    /\ pc \in {"idle", "done", "failed"}
    /\ run < MaxRuns
    /\ run' = run + 1
    /\ pc' = MainSteps[1]
    /\ written' = {}
    /\ song_df' = {}
    /\ artists_df' = {}
    /\ UNCHANGED <<catalog, log, store>>

\* df = spark.read.json(song_data, schema=RawSongSchema)
ReadSongData ==
    /\ pc = "read_song_data"
    /\ pc' = After(pc)
    /\ UNCHANGED <<catalog, log, store, written, run, song_df, artists_df>>

\* songs_table.write.parquet(output_data + '/song', mode="overwrite", ...)
WriteSongs ==
    /\ pc = "write_song"
    /\ store' = [store EXCEPT !["song"] = WriteParquet(@, SongsTable(catalog))]
    /\ written' = written \cup {"song"}
    /\ pc' = After(pc)
    /\ UNCHANGED <<catalog, log, run, song_df, artists_df>>

\* artists_table.write.parquet(output_data + '/artists', mode="overwrite")
WriteArtists ==
    /\ pc = "write_artists"
    /\ store' = [store EXCEPT !["artists"] = WriteParquet(@, ArtistsTable(catalog))]
    /\ written' = written \cup {"artists"}
    /\ pc' = After(pc)
    /\ UNCHANGED <<catalog, log, run, song_df, artists_df>>

\* df = spark.read.json(log_data, schema=RawLogSchema)
ReadLogData ==
    /\ pc = "read_log_data"
    /\ pc' = After(pc)
    /\ UNCHANGED <<catalog, log, store, written, run, song_df, artists_df>>

\* users_table.write.parquet(output_data + '/users', mode="overwrite")
WriteUsers ==
    /\ pc = "write_users"
    /\ \E t \in UsersTables(FilterNextSong(log)) :
          store' = [store EXCEPT !["users"] = WriteParquet(@, t)]
    /\ written' = written \cup {"users"}
    /\ pc' = After(pc)
    /\ UNCHANGED <<catalog, log, run, song_df, artists_df>>

\* time_table.write.parquet(output_data + '/time', mode="overwrite", ...)
WriteTime ==
    /\ pc = "write_time"
    /\ store' = [store EXCEPT !["time"] =
                    WriteParquet(@, TimeTable(FilterNextSong(log)))]
    /\ written' = written \cup {"time"}
    /\ pc' = After(pc)
    /\ UNCHANGED <<catalog, log, run, song_df, artists_df>>

\* song_df = spark.read.parquet(output_data + '/song')
ReadSongs ==
    /\ pc = "read_song"
    /\ CanRead("song")
    /\ song_df' = ReadParquet("song")
    /\ pc' = After(pc)
    /\ UNCHANGED <<catalog, log, store, written, run, artists_df>>

\* artists_df = spark.read.parquet(output_data + '/artists')
ReadArtists ==
    /\ pc = "read_artists"
    /\ CanRead("artists")
    /\ artists_df' = ReadParquet("artists")
    /\ pc' = After(pc)
    /\ UNCHANGED <<catalog, log, store, written, run, song_df>>

\* songplays_table.write.parquet(output_data + '/songplays', mode="overwrite")
WriteSongplays ==
    /\ pc = "write_songplays"
    /\ store' = [store EXCEPT !["songplays"] =
                    WriteParquet(@, SongPlaysTable(FilterNextSong(log),
                                                   song_df, artists_df))]
    /\ written' = written \cup {"songplays"}
    /\ pc' = After(pc)
    /\ UNCHANGED <<catalog, log, run, song_df, artists_df>>

\* the read or write of the current step raises (source unreachable, sink
\* unwritable, path missing): nothing catches it and main ends
Fail ==
    /\ Running
    /\ pc' = "failed"
    /\ UNCHANGED <<catalog, log, store, written, run, song_df, artists_df>>

\* between two runs the catalog feed changes: a record arrives or is
\* withdrawn
CatalogChange ==
    /\ Ended
    /\ run < MaxRuns
    /\ \E r \in CatalogRecords :
          /\ catalog' = IF r \in catalog THEN catalog \ {r} ELSE catalog \cup {r}
          /\ Cardinality(catalog') <= MaxCat
    /\ pc' = "idle"
    /\ written' = {}
    /\ UNCHANGED <<log, store, run, song_df, artists_df>>

Next ==
    \/ CatalogChange
    \/ StartRun
    \/ ReadSongData
    \/ WriteSongs
    \/ WriteArtists
    \/ ReadLogData
    \/ WriteUsers
    \/ WriteTime
    \/ ReadSongs
    \/ ReadArtists
    \/ WriteSongplays
    \/ Fail

Spec == Init /\ [][Next]_vars

-----------------------------------------------------------------------------
(* Properties *)

\* the activity records with page = 'NextSong', read off the input directly
NextSongRecords == { r \in log : r.page = V("NextSong") }

\* the songplay_id the run gives a NextSong record
IdOf(r) ==
    monotonically_increasing_id(r.file, PartitionPosition(NextSongRecords, r))

Rows(t) == store[t].rows

\* r has the greatest ts among the NextSong records of its user (a record
\* without ts counts as older than any record with one)
HasMaxTs(r) ==
    \A q \in NextSongRecords :
        q.userId = r.userId => (q.ts = NULL \/ (r.ts # NULL /\ q.ts[1] <= r.ts[1]))

\* C1: the User table a run wrote has exactly one row per distinct non-null
\* user_id of the NextSong records, and the row carries first_name,
\* last_name, gender and level of a record of that user with maximal ts.
C1_UserLatestWins ==
    "users" \in written =>
        LET ids == { r.userId : r \in NextSongRecords } \ {NULL}
        IN  /\ \A u \in ids :
                  Cardinality({ x \in Rows("users") : x.user_id = u }) = 1
            /\ \A x \in Rows("users") :
                  /\ x.user_id \in ids
                  /\ \E r \in NextSongRecords :
                        /\ r.userId = x.user_id
                        /\ HasMaxTs(r)
                        /\ x.first_name = r.firstName
                        /\ x.last_name = r.lastName
                        /\ x.gender = r.gender
                        /\ x.level = r.level

\* C1 witness: a user with records at ts 100, 300 and 200 and levels free,
\* paid, free has the row with level paid.
C1_Witness ==
    LET mine == { r \in NextSongRecords : r.userId = V("u1") }
    IN  /\ "users" \in written
        /\ Cardinality(mine) = 3
        /\ { <<r.ts, r.level>> : r \in mine }
             = { <<V(100), V("free")>>, <<V(300), V("paid")>>, <<V(200), V("free")>> }
        /\ \E x \in Rows("users") : x.user_id = V("u1") /\ x.level = V("paid")

\* C2: in the Song table a run wrote all song_id values are non-null and
\* pairwise distinct, and likewise the artist_id values of the Artist table.
C2_KeysUnique ==
    /\ "song" \in written =>
          \A x, y \in Rows("song") :
              x.song_id # NULL /\ (x.song_id = y.song_id => x = y)
    /\ "artists" \in written =>
          \A x, y \in Rows("artists") :
              x.artist_id # NULL /\ (x.artist_id = y.artist_id => x = y)

\* C3: every NextSong record has at least one SongPlay row, carrying its
\* user_id, session_id, location, level and user_agent even when user_id or
\* ts is missing, with null song_id / artist_id when no Song / Artist row
\* matches; so the SongPlay table has at least as many rows as there are
\* NextSong records.
C3_OuterJoinComplete ==
    "songplays" \in written =>
        /\ Cardinality(Rows("songplays")) >= Cardinality(NextSongRecords)
        /\ \A r \in NextSongRecords :
              \E x \in Rows("songplays") :
                  /\ x.songplay_id = IdOf(r)
                  /\ x.user_id = r.userId
                  /\ x.session_id = r.sessionId
                  /\ x.location = r.location
                  /\ x.level = r.level
                  /\ x.user_agent = r.userAgent
                  /\ (\A b \in song_df : b.title = NULL \/ b.title # r.song)
                        => x.song_id = NULL
                  /\ (\A c \in artists_df : c.name = NULL \/ c.name # r.artist)
                        => x.artist_id = NULL

\* C3 witness: a NextSong record without user_id and ts that matches no Song
\* and no Artist row has its row, with all four keys null.
C3_Witness ==
    /\ "songplays" \in written
    /\ \E r \in NextSongRecords :
          /\ r.userId = NULL /\ r.ts = NULL
          /\ \A b \in song_df : b.title # r.song
          /\ \A c \in artists_df : c.name # r.artist
          /\ \E x \in Rows("songplays") :
                /\ x.songplay_id = IdOf(r)
                /\ x.user_id = NULL /\ x.start_time = NULL
                /\ x.song_id = NULL /\ x.artist_id = NULL

\* C4: a NextSong record with m >= 1 Song rows of its title and n >= 1
\* Artist rows of its artist name has exactly m * n SongPlay rows.
C4_FanOutProduct ==
    "songplays" \in written =>
        \A r \in NextSongRecords :
            LET m == Cardinality({ b \in song_df :
                                     r.song # NULL /\ b.title = r.song })
                n == Cardinality({ c \in artists_df :
                                     r.artist # NULL /\ c.name = r.artist })
            IN  (m >= 1 /\ n >= 1) =>
                    Cardinality({ x \in Rows("songplays") :
                                    x.songplay_id = IdOf(r) }) = m * n

\* C5: the Time table a run wrote has exactly one row per distinct non-null
\* ts of the NextSong records, ts = 0 included.
C5_TimeRowPerTs ==
    "time" \in written =>
        LET stamps == { V(r.ts[1] * 1000) :
                          r \in { q \in NextSongRecords : q.ts # NULL } }
        IN  /\ { x.start_time : x \in Rows("time") } = stamps
            /\ Cardinality(Rows("time")) = Cardinality(stamps)

\* C6: every User row, TimeRow and SongPlay row a run wrote comes from a
\* record with page = 'NextSong', and the SongPlay ids are those of the
\* NextSong records alone: a record of another page contributes nothing.
C6_OnlyNextSong ==
    /\ "users" \in written =>
          \A x \in Rows("users") :
              \E r \in NextSongRecords :
                  x = [user_id |-> r.userId, first_name |-> r.firstName,
                       last_name |-> r.lastName, gender |-> r.gender,
                       level |-> r.level]
    /\ "time" \in written =>
          \A x \in Rows("time") :
              \E r \in NextSongRecords :
                  r.ts # NULL /\ x.start_time = V(r.ts[1] * 1000)
    /\ "songplays" \in written =>
          /\ \A x \in Rows("songplays") :
                \E r \in NextSongRecords :
                    /\ x.songplay_id = IdOf(r)
                    /\ x.user_id = r.userId
                    /\ x.level = r.level
                    /\ x.session_id = r.sessionId
          /\ Cardinality({ x.songplay_id : x \in Rows("songplays") })
               = Cardinality(NextSongRecords)

\* C6 witness: a completed run over a log holding a Login record of a user
\* who also has NextSong records, the Login record being the latest.
C6_Witness ==
    /\ pc = "done"
    /\ \E l \in log :
          /\ l.page = V("Login")
          /\ \E r \in NextSongRecords :
                r.userId = l.userId /\ r.ts # NULL /\ r.ts[1] < l.ts[1]
          /\ \E x \in Rows("users") : x.user_id = l.userId

\* C7: the SongPlay rows of a NextSong record with song = null all have
\* song_id = null, whatever the Song table holds.
C7_NullSongNoMatch ==
    "songplays" \in written =>
        \A r \in NextSongRecords :
            r.song = NULL =>
                \A x \in Rows("songplays") :
                    x.songplay_id = IdOf(r) => x.song_id = NULL

\* C7 witness: a record with song = null joined against a Song table that
\* holds a row with a null title.
C7_Witness ==
    /\ "songplays" \in written
    /\ \E b \in song_df : b.title = NULL
    /\ \E r \in NextSongRecords :
          /\ r.song = NULL
          /\ \E x \in Rows("songplays") :
                x.songplay_id = IdOf(r) /\ x.song_id = NULL

\* C8: when a run has ended it has written all five tables or none.
C8_AllOrNothing == Ended => (written = {} \/ written = TableNames)

\* C9: when process_log_data reads the Song and Artist tables and evaluates
\* the joins, this run has written both, and what it reads and joins
\* against are exactly the rows this run derived from the catalog.
C9_JoinsSeeThisRun ==
    /\ pc \in {"read_song", "read_artists", "write_songplays"} =>
          /\ {"song", "artists"} \subseteq written
          /\ store["song"] = [exists |-> TRUE, rows |-> SongsTable(catalog)]
          /\ store["artists"] = [exists |-> TRUE, rows |-> ArtistsTable(catalog)]
    /\ pc \in {"read_artists", "write_songplays"} =>
          song_df = SongsTable(catalog)
    /\ (pc = "write_songplays" \/ "songplays" \in written) =>
          /\ song_df = SongsTable(catalog)
          /\ artists_df = ArtistsTable(catalog)

\* C9 witness: a later run is about to evaluate the joins while the
\* SongPlay table of an earlier run still refers to a song that this run's
\* Song table no longer holds.
C9_Witness ==
    /\ pc = "write_songplays"
    /\ run >= 2
    /\ song_df # {}
    /\ \E x \in Rows("songplays") :
          x.song_id # NULL /\ \A b \in song_df : b.song_id # x.song_id

\* C10: a run over the same activity records as the run that wrote the
\* present User table writes the same User table.
C10_UsersDeterministic ==
    [][(pc = "write_users" /\ pc' = "write_time" /\ store["users"].exists)
          => store'["users"] = store["users"]]_vars

====
